---------------------------- MODULE Spec2Model ----------------------------
(***************************************************************************)
(* Circle drawer (docs/circle-drawer/index.js): circles placed on an svg,  *)
(* a per-circle menu and diameter form, and an undo / redo change log.     *)
(*                                                                         *)
(* Every function of the source is an operator from a store (a record of   *)
(* the module-level variables and the DOM elements they reference) to the  *)
(* store after the call.  A handler is the composition its body spells     *)
(* out; an exception leaves the store as it was at the throw, with the     *)
(* field "thrown" naming the error.                                        *)
(***************************************************************************)
EXTENDS Integers, Sequences, FiniteSets, TLC

(* Bounds of the model. *)
MaxCircles == 2      \* circles created by clicks on the svg
MaxCoord == 2        \* click positions offered to onSvgClick
MaxDelta == 1        \* slider values offered: 2*DEFAULT_DIAMETER - 0..MaxDelta
MaxLog == 3          \* length of changes \o changesUndone
MaxStray == 1        \* handlers invoked although the page does not offer them

DEFAULT_DIAMETER == 24

VARIABLES
    selected,        \* line 1: null or <<[circle, diameter]>>
    changesUndone,   \* line 2: the redo stack
    changes,         \* line 12: the undo stack
    state,           \* line 182: state.value
    elems,           \* lines 19-27: the properties of the elements the code touches
    circles,         \* the circle elements created so far: [cx, cy, r, selected]
    thrown,          \* the error the last handler ended with, or "none"
    last,            \* history: the last handler invoked
    pre,             \* history: the store that handler started from
    rewind,          \* history: the surfaces a run of edits started from
    strays           \* history: handlers invoked that the page did not offer

vars == <<selected, changesUndone, changes, state, elems, circles, thrown,
          last, pre, rewind, strays>>

null == <<>>

Front(s) == SubSeq(s, 1, Len(s) - 1)
Last(s) == s[Len(s)]
Range(s) == {s[i] : i \in 1..Len(s)}

(***************************************************************************)
(* Numbers.  The r attribute holds value / 2 for an integer slider value,  *)
(* so a radius is a rational with denominator 1 or 2.                      *)
(***************************************************************************)
Num(n) == [num |-> n, den |-> 1]

\* value / 2  (lines 79, 84, 247)
Half(d) == IF d % 2 = 0 THEN [num |-> d \div 2, den |-> 1]
                        ELSE [num |-> d, den |-> 2]

\* getAttribute("r") * 2  (lines 49, 106)
Twice(r) == IF r.den = 2 THEN r.num ELSE 2 * r.num

changeTypes == [circleAdded |-> "circleAdded", diameterChange |-> "diameterChange"]

states == [default |-> "default", menuOpen |-> "menuOpen", formOpen |-> "formOpen"]

(* The inputs the events carry. *)
Points == {[x |-> a, y |-> MaxCoord + 1 - a] : a \in 1..MaxCoord}
InputValues == {2 * DEFAULT_DIAMETER - k : k \in 0..MaxDelta}

Store == [selected |-> selected, changesUndone |-> changesUndone,
          changes |-> changes, state |-> state, elems |-> elems,
          circles |-> circles, thrown |-> thrown]

Thrown(s) == s.thrown /= "none"
Throw(s, e) == [s EXCEPT !.thrown = e]

(* lines 29-43 *)
hide(s, elem) == [s EXCEPT !.elems[elem].hide = TRUE]
show(s, elem) == [s EXCEPT !.elems[elem].hide = FALSE]
enable(s, elem) == [s EXCEPT !.elems[elem].disabled = FALSE]
disable(s, elem) == [s EXCEPT !.elems[elem].disabled = TRUE]

\* mutant: the snapshot is the radius, not the diameter
select_radius(s, circle) ==
    LET s1 == [s EXCEPT !.circles[circle].selected = TRUE]
    IN [s1 EXCEPT !.selected =
            <<[circle |-> circle, diameter |-> s1.circles[circle].r.num]>>]

(* lines 45-51 *)
select(s, circle) ==
    LET s1 == [s EXCEPT !.circles[circle].selected = TRUE]
    IN [s1 EXCEPT !.selected =
            <<[circle |-> circle, diameter |-> Twice(s1.circles[circle].r)]>>]

\* mutant: the selection is cleared but the circle keeps its mark
deselect_keepMark(s) ==
    IF s.selected = null THEN Throw(s, "TypeError")
    ELSE [s EXCEPT !.selected = null]

(* lines 53-56: selected.circle of null is a TypeError *)
deselect(s) ==
    IF s.selected = null THEN Throw(s, "TypeError")
    ELSE [s EXCEPT !.circles[s.selected[1].circle].selected = FALSE,
                   !.selected = null]

(* lines 58-66 *)
loadForm(s) ==
    IF s.selected = null THEN Throw(s, "TypeError")
    ELSE LET c == s.circles[s.selected[1].circle]
             s1 == [s EXCEPT !.elems.input.value = s.selected[1].diameter,
                             !.elems.label.x = c.cx,
                             !.elems.label.y = c.cy]
         IN show(s1, "form")

\* mutant: the svg is not locked
disableSvg_noop(s) == s

(* lines 68-74 *)
disableSvg(s) == [s EXCEPT !.elems.svg.disabled = TRUE]
enableSvg(s) == [s EXCEPT !.elems.svg.disabled = FALSE]

\* mutant: the undo leaves the new diameter in place
undoDiameterChange_new(s, change) ==
    [s EXCEPT !.circles[change.circle].r = Half(change.newDiameter)]

\* mutant: the redo restores the old diameter
redoDiameterChange_old(s, change) ==
    [s EXCEPT !.circles[change.circle].r = Half(change.oldDiameter)]

(* lines 77-85 *)
undoDiameterChange(s, change) ==
    [s EXCEPT !.circles[change.circle].r = Half(change.oldDiameter)]

redoDiameterChange(s, change) ==
    [s EXCEPT !.circles[change.circle].r = Half(change.newDiameter)]

\* mutant: the redo stack is kept
resetChangesUndone_keep(s) == disable(s, "redo")

(* lines 87-90 *)
resetChangesUndone(s) ==
    disable([s EXCEPT !.changesUndone = <<>>], "redo")

(* lines 93-96 *)
logChange(s, change) ==
    enable([s EXCEPT !.changes = Append(@, change)], "undo")

(* lines 98-103 *)
logCircleAdd(s, circle) ==
    logChange(s, [type |-> changeTypes.circleAdded, circle |-> circle])

\* mutant: the change is logged whether or not the diameter differs
logDiameterChange_always(s) ==
    IF s.selected = null THEN Throw(s, "TypeError")
    ELSE resetChangesUndone(
             logChange(s, [type |-> changeTypes.diameterChange,
                           circle |-> s.selected[1].circle,
                           oldDiameter |-> s.selected[1].diameter,
                           newDiameter |-> Twice(s.circles[s.selected[1].circle].r)]))

\* mutant: the record has the old and the new diameter the wrong way round
logDiameterChange_swapped(s) ==
    IF s.selected = null THEN Throw(s, "TypeError")
    ELSE LET newDiameter == Twice(s.circles[s.selected[1].circle].r)
             oldDiameter == s.selected[1].diameter
         IN IF newDiameter /= oldDiameter
            THEN resetChangesUndone(
                     logChange(s, [type |-> changeTypes.diameterChange,
                                   circle |-> s.selected[1].circle,
                                   oldDiameter |-> newDiameter,
                                   newDiameter |-> oldDiameter]))
            ELSE s

(* lines 105-119 *)
logDiameterChange(s) ==
    IF s.selected = null THEN Throw(s, "TypeError")
    ELSE LET newDiameter == Twice(s.circles[s.selected[1].circle].r)
             oldDiameter == s.selected[1].diameter
         IN IF newDiameter /= oldDiameter
            THEN resetChangesUndone(
                     logChange(s, [type |-> changeTypes.diameterChange,
                                   circle |-> s.selected[1].circle,
                                   oldDiameter |-> oldDiameter,
                                   newDiameter |-> newDiameter]))
            ELSE s

\* mutant: the circle stays on the surface
removeCircle_keep(s, circle) ==
    IF circle \notin Range(s.elems.svg.children) THEN Throw(s, "NotFoundError")
    ELSE s

(* lines 132-137: removeChild of a node that is no child is a NotFoundError *)
removeCircle(s, circle) ==
    IF circle \notin Range(s.elems.svg.children) THEN Throw(s, "NotFoundError")
    ELSE [s EXCEPT !.elems.svg.children = SelectSeq(@, LAMBDA c : c /= circle)]

(* lines 139-144: appendChild moves a node that is already a child to the end *)
addCircle(s, circle) ==
    [s EXCEPT !.elems.svg.children =
                  Append(SelectSeq(@, LAMBDA c : c /= circle), circle)]

(* lines 146-157: the new element; note r is set to DEFAULT_DIAMETER *)
createCircle(coords) ==
    [cx |-> coords.x, cy |-> coords.y, r |-> Num(DEFAULT_DIAMETER), selected |-> FALSE]

\* mutant: entering the default state does not enable the redo control
onStateChange_noRedo(s, value) ==
    CASE value = states.default ->
            LET s1 == IF Len(s.changes) > 0 THEN enable(s, "undo") ELSE s
                s3 == deselect(enableSvg(s1))
            IN IF Thrown(s3) THEN s3 ELSE hide(hide(s3, "menu"), "form")
      [] value = states.menuOpen ->
            disableSvg(disable(disable(show(s, "menu"), "undo"), "redo"))
      [] value = states.formOpen -> s
      [] OTHER -> Throw(s, "Error")

\* mutant: opening the menu leaves the redo control as it is
onStateChange_menuKeepsRedo(s, value) ==
    CASE value = states.default ->
            LET s1 == IF Len(s.changes) > 0 THEN enable(s, "undo") ELSE s
                s2 == IF Len(s1.changesUndone) > 0 THEN enable(s1, "redo") ELSE s1
                s3 == deselect(enableSvg(s2))
            IN IF Thrown(s3) THEN s3 ELSE hide(hide(s3, "menu"), "form")
      [] value = states.menuOpen ->
            disableSvg(disable(show(s, "menu"), "undo"))
      [] value = states.formOpen -> s
      [] OTHER -> Throw(s, "Error")

(* lines 184-213 *)
onStateChange(s, value) ==
    CASE value = states.default ->
            LET s1 == IF Len(s.changes) > 0 THEN enable(s, "undo") ELSE s
                s2 == IF Len(s1.changesUndone) > 0 THEN enable(s1, "redo") ELSE s1
                s3 == deselect(enableSvg(s2))
            IN IF Thrown(s3) THEN s3 ELSE hide(hide(s3, "menu"), "form")
      [] value = states.menuOpen ->
            disableSvg(disable(disable(show(s, "menu"), "undo"), "redo"))
      [] value = states.formOpen -> s
      [] OTHER -> Throw(s, "Error")

(* lines 170-180: state.set *)
stateSet(s, newState) == onStateChange([s EXCEPT !.state = newState], newState)

(* lines 216-223 *)
onSvgClick(s, coords) ==
    LET circle == Len(s.circles) + 1
        s1 == [s EXCEPT !.circles = Append(@, createCircle(coords))]
    IN resetChangesUndone(logCircleAdd(addCircle(s1, circle), circle))

\* mutant: the menu opens without a selection
onCircleRightClick_noSelect(s, target) == stateSet(s, states.menuOpen)

(* lines 229-233 *)
onCircleRightClick(s, target) == stateSet(select(s, target), states.menuOpen)

\* mutant: the menu stays on the page when the form opens
onAdjustDiameterClick_keepMenu(s) ==
    LET s1 == loadForm(s)
    IN IF Thrown(s1) THEN s1 ELSE stateSet(s1, states.formOpen)

(* lines 235-239 *)
onAdjustDiameterClick(s) ==
    LET s1 == loadForm(s)
    IN IF Thrown(s1) THEN s1 ELSE stateSet(hide(s1, "menu"), states.formOpen)

(* lines 241-243 *)
onMenuCloseClick(s) == stateSet(s, states.default)

\* mutant: the live value also replaces the selection's snapshot
onDiameterInput_snap(s, value) ==
    LET s1 == [s EXCEPT !.elems.input.value = value]
    IN IF s1.selected = null THEN Throw(s1, "TypeError")
       ELSE [s1 EXCEPT !.circles[s1.selected[1].circle].r = Half(value),
                       !.selected[1].diameter = value]

(* lines 245-248: the slider already holds the value when the event fires *)
onDiameterInput(s, value) ==
    LET s1 == [s EXCEPT !.elems.input.value = value]
    IN IF s1.selected = null THEN Throw(s1, "TypeError")
       ELSE [s1 EXCEPT !.circles[s1.selected[1].circle].r = Half(value)]

(* lines 250-253 *)
onFormCloseClick(s) ==
    LET s1 == logDiameterChange(s)
    IN IF Thrown(s1) THEN s1 ELSE stateSet(s1, states.default)

(* lines 260-271 and 286-297: the switch on change.type *)
undoChange(s, change) ==
    CASE change.type = changeTypes.circleAdded -> removeCircle(s, change.circle)
      [] change.type = changeTypes.diameterChange -> undoDiameterChange(s, change)
      [] OTHER -> Throw(s, "Error")

redoChange(s, change) ==
    CASE change.type = changeTypes.circleAdded -> addCircle(s, change.circle)
      [] change.type = changeTypes.diameterChange -> redoDiameterChange(s, change)
      [] OTHER -> Throw(s, "Error")

\* mutant: the oldest record is undone instead of the newest
onUndoClick_fifo(s) ==
    LET s1 == IF Len(s.changes) > 0
              THEN LET change == Head(s.changes)
                   IN undoChange([s EXCEPT !.changes = Tail(@),
                                           !.changesUndone = Append(@, change)],
                                 change)
              ELSE s
        s2 == IF Len(s1.changes) = 0 THEN disable(s1, "undo") ELSE s1
    IN IF Thrown(s1) THEN s1 ELSE enable(s2, "redo")

(* lines 255-279 *)
onUndoClick(s) ==
    LET s1 == IF Len(s.changes) > 0
              THEN LET change == Last(s.changes)
                   IN undoChange([s EXCEPT !.changes = Front(@),
                                           !.changesUndone = Append(@, change)],
                                 change)
              ELSE s
        s2 == IF Len(s1.changes) = 0 THEN disable(s1, "undo") ELSE s1
    IN IF Thrown(s1) THEN s1 ELSE enable(s2, "redo")

\* mutant: the redone record is not put back on the undo stack
onRedoClick_drop(s) ==
    LET s1 == IF Len(s.changesUndone) > 0
              THEN LET change == Last(s.changesUndone)
                   IN redoChange([s EXCEPT !.changesUndone = Front(@)], change)
              ELSE s
        s2 == IF Len(s1.changesUndone) = 0 THEN disable(s1, "redo") ELSE s1
    IN IF Thrown(s1) THEN s1 ELSE enable(s2, "undo")

\* mutant: the oldest undone record is redone instead of the newest
onRedoClick_fifo(s) ==
    LET s1 == IF Len(s.changesUndone) > 0
              THEN LET change == Head(s.changesUndone)
                   IN redoChange([s EXCEPT !.changesUndone = Tail(@),
                                           !.changes = Append(@, change)],
                                 change)
              ELSE s
        s2 == IF Len(s1.changesUndone) = 0 THEN disable(s1, "redo") ELSE s1
    IN IF Thrown(s1) THEN s1 ELSE enable(s2, "undo")

(* lines 281-305 *)
onRedoClick(s) ==
    LET s1 == IF Len(s.changesUndone) > 0
              THEN LET change == Last(s.changesUndone)
                   IN redoChange([s EXCEPT !.changesUndone = Front(@),
                                           !.changes = Append(@, change)],
                                 change)
              ELSE s
        s2 == IF Len(s1.changesUndone) = 0 THEN disable(s1, "redo") ELSE s1
    IN IF Thrown(s1) THEN s1 ELSE enable(s2, "undo")

(***************************************************************************)
(* The page as loaded.  The markup is not part of index.js: the buttons    *)
(* start disabled and the menu and the form start hidden.                  *)
(***************************************************************************)
InitElems ==
    [undo |-> [disabled |-> TRUE],
     redo |-> [disabled |-> TRUE],
     svg |-> [disabled |-> FALSE, children |-> <<>>],
     menu |-> [hide |-> TRUE],
     form |-> [hide |-> TRUE],
     input |-> [value |-> 0],
     label |-> [x |-> 0, y |-> 0]]

InitStore ==
    [selected |-> null, changesUndone |-> <<>>, changes |-> <<>>,
     state |-> states.default, elems |-> InitElems, circles |-> <<>>,
     thrown |-> "none"]

(***************************************************************************)
(* What is on the surface: the circles that are children of the svg, each  *)
(* with its radius.                                                        *)
(***************************************************************************)
Surface(s) == [c \in Range(s.elems.svg.children) |-> s.circles[c].r]

(***************************************************************************)
(* History of the current run of edits.  bases[k] is the surface as it was *)
(* before the k-th edit of the run (for a diameter change: before the      *)
(* right-click that began it, kept in pending meanwhile); every undo that  *)
(* follows the run takes the last base off and puts it in expected, and    *)
(* undone counts these undos.  Any other event ends the run.  moved tells  *)
(* that the slider left the selection's diameter while the form was open.  *)
(***************************************************************************)
NoRewind ==
    [bases |-> <<>>, pending |-> <<>>, expected |-> <<>>, undone |-> 0,
     moved |-> FALSE]

Logged(s) == Len(s.changes) > Len(Store.changes)

Edit(base) ==
    [bases |-> Append(IF rewind.undone > 0 THEN <<>> ELSE rewind.bases, base),
     pending |-> <<>>, expected |-> <<>>, undone |-> 0, moved |-> rewind.moved]

Rewind(name, s) ==
    CASE name = "onSvgClick" -> [Edit(Surface(Store)) EXCEPT !.moved = FALSE]
      [] name = "onCircleRightClick" ->
            [rewind EXCEPT !.pending = <<Surface(Store)>>, !.moved = FALSE]
      [] name = "onAdjustDiameterClick" -> rewind
      [] name = "onDiameterInput" ->
            [rewind EXCEPT !.moved =
                 @ \/ s.elems.input.value /= Store.selected[1].diameter]
      [] name = "onFormCloseClick" /\ Logged(s) /\ rewind.pending /= <<>> ->
            Edit(rewind.pending[1])
      [] name = "onFormCloseClick" /\ ~Logged(s) ->
            [NoRewind EXCEPT !.moved = rewind.moved]
      [] name = "onUndoClick" /\ rewind.bases /= <<>> ->
            [bases |-> Front(rewind.bases), pending |-> <<>>,
             expected |-> <<Last(rewind.bases)>>, undone |-> rewind.undone + 1,
             moved |-> FALSE]
      [] OTHER -> NoRewind

Init ==
    /\ selected = null
    /\ changesUndone = <<>>
    /\ changes = <<>>
    /\ state = states.default
    /\ elems = InitElems
    /\ circles = <<>>
    /\ thrown = "none"
    /\ last = "load"
    /\ pre = InitStore
    /\ rewind = NoRewind
    /\ strays = 0

(* One handler runs to its end (or to its throw) before the next event. *)
Run(name, s) ==
    /\ selected' = s.selected
    /\ changesUndone' = s.changesUndone
    /\ changes' = s.changes
    /\ state' = s.state
    /\ elems' = s.elems
    /\ circles' = s.circles
    /\ thrown' = s.thrown
    /\ last' = name
    /\ pre' = Store

Handle(name, s) ==
    /\ Run(name, s)
    /\ rewind' = Rewind(name, s)
    /\ UNCHANGED strays

Fresh == [Store EXCEPT !.thrown = "none"]

(***************************************************************************)
(* What the browser lets the user do: a disabled button takes no click, a  *)
(* hidden menu or form takes none, and the svg with class "disabled"       *)
(* passes no pointer event to itself or to its circles.                    *)
(***************************************************************************)
CanClick(elem) == ~elems[elem].disabled
Visible(elem) == ~elems[elem].hide
SvgInteractive == ~elems.svg.disabled

\* the bound on the log: a handler is offered only if the undo stack stays within it
LogRoom(s) == Len(s.changes) <= MaxLog

SvgClick ==
    /\ SvgInteractive
    /\ Len(circles) < MaxCircles
    /\ \E p \in Points :
           /\ LogRoom(onSvgClick(Fresh, p))
           /\ Handle("onSvgClick", onSvgClick(Fresh, p))

CircleRightClick ==
    /\ SvgInteractive
    /\ \E c \in Range(elems.svg.children) :
           Handle("onCircleRightClick", onCircleRightClick(Fresh, c))

AdjustDiameterClick ==
    /\ Visible("menu")
    /\ Handle("onAdjustDiameterClick", onAdjustDiameterClick(Fresh))

MenuCloseClick ==
    /\ Visible("menu")
    /\ Handle("onMenuCloseClick", onMenuCloseClick(Fresh))

DiameterInput ==
    /\ Visible("form")
    /\ \E v \in InputValues : Handle("onDiameterInput", onDiameterInput(Fresh, v))

FormCloseClick ==
    /\ Visible("form")
    /\ LogRoom(onFormCloseClick(Fresh))
    /\ Handle("onFormCloseClick", onFormCloseClick(Fresh))

UndoClick ==
    /\ CanClick("undo")
    /\ Handle("onUndoClick", onUndoClick(Fresh))

RedoClick ==
    /\ CanClick("redo")
    /\ Handle("onRedoClick", onRedoClick(Fresh))

Next ==
    \/ SvgClick
    \/ CircleRightClick
    \/ AdjustDiameterClick
    \/ MenuCloseClick
    \/ DiameterInput
    \/ FormCloseClick
    \/ UndoClick
    \/ RedoClick

Spec == Init /\ [][Next]_vars

(***************************************************************************)
(* The handlers as functions of the page: each can also be invoked in a    *)
(* state in which the page does not offer it (the guards inside            *)
(* onUndoClick and onRedoClick are written for that).  At most MaxStray    *)
(* such invocations happen.                                                *)
(***************************************************************************)
Stray(name, s) ==
    /\ strays < MaxStray
    /\ Run(name, s)
    /\ rewind' = NoRewind
    /\ strays' = strays + 1

CallSvgClick ==
    /\ ~SvgInteractive
    /\ Len(circles) < MaxCircles
    /\ \E p \in Points :
           /\ LogRoom(onSvgClick(Fresh, p))
           /\ Stray("onSvgClick", onSvgClick(Fresh, p))

CallCircleRightClick ==
    /\ \E c \in 1..Len(circles) :
           /\ ~(SvgInteractive /\ c \in Range(elems.svg.children))
           /\ Stray("onCircleRightClick", onCircleRightClick(Fresh, c))

CallAdjustDiameterClick ==
    /\ ~Visible("menu")
    /\ Stray("onAdjustDiameterClick", onAdjustDiameterClick(Fresh))

CallMenuCloseClick ==
    /\ ~Visible("menu")
    /\ Stray("onMenuCloseClick", onMenuCloseClick(Fresh))

CallDiameterInput ==
    /\ ~Visible("form")
    /\ \E v \in InputValues : Stray("onDiameterInput", onDiameterInput(Fresh, v))

CallFormCloseClick ==
    /\ ~Visible("form")
    /\ LogRoom(onFormCloseClick(Fresh))
    /\ Stray("onFormCloseClick", onFormCloseClick(Fresh))

CallUndoClick ==
    /\ ~CanClick("undo")
    /\ Stray("onUndoClick", onUndoClick(Fresh))

CallRedoClick ==
    /\ ~CanClick("redo")
    /\ Stray("onRedoClick", onRedoClick(Fresh))

NextHandlers ==
    \/ Next
    \/ CallSvgClick
    \/ CallCircleRightClick
    \/ CallAdjustDiameterClick
    \/ CallMenuCloseClick
    \/ CallDiameterInput
    \/ CallFormCloseClick
    \/ CallUndoClick
    \/ CallRedoClick

SpecHandlers == Init /\ [][NextHandlers]_vars

(***************************************************************************)
(* Properties.  Each compares the store a handler ended with (the current  *)
(* state) with the store it started from (pre).                            *)
(***************************************************************************)
Default(s) == s.state = states.default

\* the value r stands for, doubled
Diameter(r) == IF r.den = 1 THEN 2 * r.num ELSE r.num

\* the diameter of the selected circle differs from the selection's snapshot
Differs(s) ==
    /\ s.selected /= null
    /\ Diameter(s.circles[s.selected[1].circle].r) /= s.selected[1].diameter

\* what the undo / redo laws speak of: surface, stacks, control enablement
View(s) ==
    [surface |-> Surface(s), changes |-> s.changes,
     changesUndone |-> s.changesUndone,
     undoEnabled |-> ~s.elems.undo.disabled,
     redoEnabled |-> ~s.elems.redo.disabled]

IsAdd(change) == change.type = changeTypes.circleAdded
IsDiameter(change) == change.type = changeTypes.diameterChange

\* C1: full rewind identity.  After N circle adds / confirmed diameter
\* changes made in a row from a default state and then N undos in a row,
\* the circles on the surface and their radii are what they were before the
\* first of the N edits (for every N: each undo of the rewind is checked
\* against the surface recorded before the edit it takes back).
FullRewind ==
    (last = "onUndoClick" /\ rewind.expected /= <<>>)
        => Surface(Store) = rewind.expected[1]

\* a run of two or more edits, one of them a diameter change, begun on a
\* surface that already held a circle, has been rewound completely
FullRewindWitness ==
    /\ last = "onUndoClick"
    /\ rewind.expected /= <<>>
    /\ rewind.bases = <<>>
    /\ rewind.undone >= 2
    /\ DOMAIN rewind.expected[1] /= {}
    /\ Len(changesUndone) >= rewind.undone
    /\ \E i \in 1..rewind.undone :
           IsDiameter(changesUndone[Len(changesUndone) + 1 - i])

\* C2: round trip.  From a default state with a non-empty undo stack, undo
\* and then redo give back the same surface (circles and radii), the same
\* undo and redo stacks and the same enablement of both controls.
RoundTrip ==
    (last = "onUndoClick" /\ Default(pre) /\ pre.changes /= <<>>)
        => /\ CanClick("redo")
           /\ View(onRedoClick(Fresh)) = View(pre)

\* an undo of a diameter change, with older undone changes below it, is
\* about to be redone
RoundTripWitness ==
    /\ last = "onUndoClick"
    /\ Default(pre)
    /\ pre.changes /= <<>>
    /\ IsDiameter(Last(pre.changes))
    /\ pre.changesUndone /= <<>>
    /\ View(Store) /= View(pre)

\* C3: an edit (a click that places a circle, a form confirm whose diameter
\* differs from the selection's snapshot) appends exactly one record to the
\* undo stack and leaves the redo stack empty and the redo control
\* disabled, however many undos came before it.
IsEdit ==
    \/ last = "onSvgClick"
    \/ last = "onFormCloseClick" /\ Differs(pre)

NoOpEditNotLogged ==
    (last = "onFormCloseClick" /\ pre.selected /= null /\ ~Differs(pre))
        => changes = pre.changes

\* the slider left the snapshot value and came back before the confirm
NoOpEditNotLoggedWitness ==
    /\ last = "onFormCloseClick"
    /\ pre.selected /= null
    /\ ~Differs(pre)
    /\ rewind.moved
    /\ changes /= <<>>

\* C5: in the default state the undo control is enabled iff the undo stack
\* is non-empty and the redo control is enabled iff the redo stack is
\* non-empty.
EnablementMirrorsStacks ==
    Default(Store) => /\ CanClick("undo") <=> changes /= <<>>
                      /\ CanClick("redo") <=> changesUndone /= <<>>

\* every kind of event that ends in the default state has happened with
\* each control in each position
EnablementWitness ==
    /\ Default(Store)
    /\ last = "onFormCloseClick"
    /\ ~Differs(pre)
    /\ CanClick("undo")
    /\ CanClick("redo")

\* C6: undo on an empty undo stack is a no-op: the stacks, the circles on
\* the surface with their radii, and the enablement of the undo and of the
\* redo control stay as they were.
UndoOnEmptyIsNoOp ==
    (last = "onUndoClick" /\ pre.changes = <<>>) => View(Store) = View(pre)

\* C7: redo on an empty redo stack is a no-op: the stacks, the circles on
\* the surface with their radii, and the enablement of the undo and of the
\* redo control stay as they were.
RedoOnEmptyIsNoOp ==
    (last = "onRedoClick" /\ pre.changesUndone = <<>>) => View(Store) = View(pre)

\* every field of every circle but the radius of c is as it was
OthersUntouched(c) ==
    /\ Len(circles) = Len(pre.circles)
    /\ \A d \in 1..Len(circles) :
           IF d = c THEN [circles[d] EXCEPT !.r = pre.circles[d].r] = pre.circles[d]
                    ELSE circles[d] = pre.circles[d]

\* C8: undo is LIFO.  With a non-empty undo stack it takes the last record
\* off the undo stack, puts that record on top of the redo stack and applies
\* its inverse only: the circle of a circleAdded record leaves the surface,
\* the circle of a diameterChange record gets radius oldDiameter / 2; every
\* other circle and record is untouched.
UndoInvertsLast ==
    (last = "onUndoClick" /\ pre.changes /= <<>>)
        => LET change == Last(pre.changes)
               c == change.circle
           IN /\ thrown = "none"
              /\ changes = Front(pre.changes)
              /\ changesUndone = Append(pre.changesUndone, change)
              /\ OthersUntouched(c)
              /\ IsAdd(change) =>
                     /\ c \in Range(pre.elems.svg.children)
                     /\ Range(elems.svg.children) =
                            Range(pre.elems.svg.children) \ {c}
                     /\ circles[c].r = pre.circles[c].r
              /\ IsDiameter(change) =>
                     /\ elems.svg.children = pre.elems.svg.children
                     /\ Diameter(circles[c].r) = change.oldDiameter

\* two circles placed at different points; the second undo leaves no circle
UndoInvertsLastWitness ==
    /\ last = "onUndoClick"
    /\ Len(changesUndone) = 2
    /\ \A i \in 1..2 : IsAdd(changesUndone[i])
    /\ changes = <<>>
    /\ Len(pre.elems.svg.children) = 1
    /\ elems.svg.children = <<>>
    /\ circles[1].cx /= circles[2].cx

\* C9: redo re-applies the most recently undone change.  With a non-empty
\* redo stack it takes the last record off the redo stack, puts that record
\* on top of the undo stack and applies its forward effect only: the circle
\* of a circleAdded record is on the surface again, where it was and with
\* the radius it had when removed; the circle of a diameterChange record
\* gets radius newDiameter / 2.
RedoReappliesLast ==
    (last = "onRedoClick" /\ pre.changesUndone /= <<>>)
        => LET change == Last(pre.changesUndone)
               c == change.circle
           IN /\ thrown = "none"
              /\ changesUndone = Front(pre.changesUndone)
              /\ changes = Append(pre.changes, change)
              /\ OthersUntouched(c)
              /\ IsAdd(change) =>
                     /\ c \notin Range(pre.elems.svg.children)
                     /\ Range(elems.svg.children) =
                            Range(pre.elems.svg.children) \cup {c}
                     /\ circles[c].r = pre.circles[c].r
              /\ IsDiameter(change) =>
                     /\ elems.svg.children = pre.elems.svg.children
                     /\ Diameter(circles[c].r) = change.newDiameter

\* a circle and its diameter change were undone; the circle, undone last,
\* is redone first and comes back with the radius it was created with
RedoReappliesLastWitness ==
    /\ last = "onRedoClick"
    /\ Len(pre.changesUndone) = 2
    /\ IsAdd(Last(pre.changesUndone))
    /\ IsDiameter(changesUndone[1])
    /\ changesUndone[1].circle = Last(changes).circle
    /\ Last(changes).circle \in Range(elems.svg.children)
    /\ Diameter(circles[Last(changes).circle].r) = changesUndone[1].oldDiameter

\* the transition table of the ui state machine: the states in which a
\* trigger has a transition
Triggers ==
    [onCircleRightClick |-> {states.default},
     onAdjustDiameterClick |-> {states.menuOpen},
     onMenuCloseClick |-> {states.menuOpen},
     onFormCloseClick |-> {states.formOpen}]

\* C10: invalid transitions fail fast.  A trigger handler invoked in a state
\* for which the table has no transition for it ends with an error and
\* without a state transition.
InvalidTriggersFail ==
    (last \in DOMAIN Triggers /\ pre.state \notin Triggers[last])
        => thrown /= "none" /\ state = pre.state

Open(s) == s.state \in {states.menuOpen, states.formOpen}

Marked(s) == {c \in 1..Len(s.circles) : s.circles[c].selected}

\* C11: a right-click never selects while a selection is active.  With a
\* selection the surface takes no input, select runs only from a state with
\* no selection, and at most one circle carries the selected mark.
SelectOnlyWhenNoneSelected ==
    /\ selected /= null => ~SvgInteractive
    /\ last = "onCircleRightClick" => pre.selected = null
    /\ Cardinality(Marked(Store)) <= 1

\* with two circles on the surface, the second one placed has been
\* right-clicked after an earlier selection of the first had ended
SelectOnlyWhenNoneSelectedWitness ==
    /\ last = "onCircleRightClick"
    /\ Len(elems.svg.children) >= 2
    /\ Marked(Store) = {2}
    /\ selected /= null
    /\ selected[1].circle = 2
    /\ elems.input.value /= 0
    /\ elems.label.x = circles[1].cx
    /\ elems.label.y = circles[1].cy
    /\ circles[1].cx /= circles[2].cx

\* C12: click-to-place is honoured in the default state only.  A circle is
\* created, put on the surface or logged as circleAdded only by a handler
\* that started in the default state, and the surface is locked in menuOpen
\* and formOpen.
Placed ==
    \/ Len(circles) > Len(pre.circles)
    \/ ~(Range(elems.svg.children) \subseteq Range(pre.elems.svg.children))
    \/ /\ Len(changes) > Len(pre.changes)
       /\ IsAdd(Last(changes))

PlaceOnlyInDefault ==
    /\ Placed => Default(pre)
    /\ last = "onSvgClick" => Default(pre) /\ Default(Store)
    /\ Open(Store) => elems.svg.disabled

\* a circle has just been placed on a surface that was locked for an
\* earlier selection and unlocked on the return to default
PlaceOnlyInDefaultWitness ==
    /\ last = "onSvgClick"
    /\ Placed
    /\ Len(circles) >= 2
    /\ pre.elems.input.value /= 0
    /\ ~elems.svg.disabled

\* C13: selection lifetime.  Between handlers a selection is active iff the
\* state is menuOpen or formOpen; only a right-click creates it, only the
\* return to default destroys it, it is not replaced in between, and
\* deselect never runs without a selection.
SelectionLifetime ==
    /\ selected /= null <=> Open(Store)
    /\ (pre.selected = null /\ selected /= null) => last = "onCircleRightClick"
    /\ (pre.selected /= null /\ selected = null) => Open(pre) /\ Default(Store)
    /\ (pre.selected /= null /\ selected /= null) => selected = pre.selected
    /\ last \in {"onMenuCloseClick", "onFormCloseClick"} =>
           pre.selected /= null /\ thrown = "none"

\* a selection made by a right-click has lived through the form and was
\* destroyed by the confirm
SelectionLifetimeWitness ==
    /\ last = "onFormCloseClick"
    /\ pre.selected /= null
    /\ pre.state = states.formOpen
    /\ selected = null
    /\ Marked(Store) = {}
    /\ Marked(pre) = {pre.selected[1].circle}

\* C14: while the menu or the form is open the undo and the redo control
\* are disabled whatever the stacks hold, so undo and redo run only from
\* the default state with no circle selected.
NoReplayWhileOpen ==
    /\ Open(Store) => ~CanClick("undo") /\ ~CanClick("redo")
    /\ last \in {"onUndoClick", "onRedoClick"} =>
           Default(pre) /\ pre.selected = null

\* the form is open with records on both stacks and both controls disabled
NoReplayWhileOpenWitness ==
    /\ state = states.formOpen
    /\ changes /= <<>>
    /\ changesUndone /= <<>>
    /\ ~CanClick("undo")
    /\ ~CanClick("redo")

\* C15: a confirmed diameter change is recorded against the selection's
\* snapshot.  When the form is confirmed with a diameter that differs from
\* the snapshot, the record appended names the selected circle, the
\* diameter it had when it was right-clicked as oldDiameter and the diameter
\* it has at the confirm as newDiameter, whatever the slider showed in
\* between; an undo that follows gives the circle the radius it had when it
\* was right-clicked.
DiameterChangeRecorded ==
    (last = "onFormCloseClick" /\ Differs(pre))
        => /\ rewind.bases /= <<>>
           /\ LET c == pre.selected[1].circle
                  atSelect == Last(rewind.bases)[c]
              IN /\ Last(changes) =
                        [type |-> changeTypes.diameterChange,
                         circle |-> c,
                         oldDiameter |-> Diameter(atSelect),
                         newDiameter |-> Diameter(pre.circles[c].r)]
                 /\ CanClick("undo")
                 /\ onUndoClick(Fresh).circles[c].r = atSelect

\* the circle confirmed had been resized before, so its snapshot is not the
\* diameter it was created with, and the slider was moved off the snapshot
DiameterChangeRecordedWitness ==
    /\ last = "onFormCloseClick"
    /\ Differs(pre)
    /\ rewind.moved
    /\ Last(changes).oldDiameter /= 2 * DEFAULT_DIAMETER
    /\ Last(changes).newDiameter /= Last(changes).oldDiameter
    /\ Len(changes) >= 3

\* C16: live editing is independent of the change log.  A diameter input
\* while the form is open changes the radius of the selected circle (and
\* the slider that carries the value) only: both stacks, the selection's
\* snapshot, the ui state, the controls and every other circle are as they
\* were.
LiveEditFrame ==
    last = "onDiameterInput"
        => /\ pre.selected /= null
           /\ thrown = "none"
           /\ changes = pre.changes
           /\ changesUndone = pre.changesUndone
           /\ selected = pre.selected
           /\ state = pre.state
           /\ [elems EXCEPT !.input.value = pre.elems.input.value] = pre.elems
           /\ OthersUntouched(pre.selected[1].circle)
           /\ Diameter(circles[pre.selected[1].circle].r) = elems.input.value

\* the radius of the selected circle has changed, with a second circle on
\* the surface and records on both stacks
LiveEditFrameWitness ==
    /\ last = "onDiameterInput"
    /\ pre.selected /= null
    /\ circles[pre.selected[1].circle].r /= pre.circles[pre.selected[1].circle].r
    /\ Len(elems.svg.children) >= 2
    /\ changes /= <<>>
    /\ changesUndone /= <<>>
    /\ Diameter(circles[selected[1].circle].r) /= selected[1].diameter

\* the edges of the ui state machine
Edges ==
    {<<states.default, "onCircleRightClick", states.menuOpen>>,
     <<states.menuOpen, "onAdjustDiameterClick", states.formOpen>>,
     <<states.menuOpen, "onMenuCloseClick", states.default>>,
     <<states.formOpen, "onFormCloseClick", states.default>>}

\* C17: the ui state changes along the table's edges only.  Every change of
\* state is default -> menuOpen by a right-click, menuOpen -> formOpen by
\* adjust diameter, menuOpen -> default by menu close or formOpen -> default
\* by form confirm; the menu is shown exactly in menuOpen and the form
\* exactly in formOpen; undo and redo start and end in default.
StateFollowsTable ==
    /\ state /= pre.state => <<pre.state, last, state>> \in Edges
    /\ last \in DOMAIN Triggers => <<pre.state, last, state>> \in Edges
    /\ Visible("menu") <=> state = states.menuOpen
    /\ Visible("form") <=> state = states.formOpen
    /\ last \in {"onUndoClick", "onRedoClick"} => Default(pre) /\ Default(Store)

\* the menu was closed without the form ever being opened since the page
\* loaded, after an undo
StateFollowsTableWitness ==
    /\ last = "onMenuCloseClick"
    /\ pre.state = states.menuOpen
    /\ state = states.default
    /\ ~Visible("menu")
    /\ pre.elems.menu.hide = FALSE
    /\ changesUndone /= <<>>
    /\ elems.input.value = 0

\* the circleAdded record of circle c is in the stack
AddIn(stack, c) ==
    \E i \in 1..Len(stack) : IsAdd(stack[i]) /\ stack[i].circle = c

OnSurface(s, c) == c \in Range(s.elems.svg.children)

\* C18: no double add, no double remove.  addCircle is called only for a
\* circle that is not on the surface and removeCircle only for one that is
\* (no removeChild fails); a circle is on the surface iff its circleAdded
\* record is in the undo stack, and off it when the record is in the redo
\* stack.
NoDoubleAddOrRemove ==
    /\ thrown = "none"
    /\ Len(elems.svg.children) = Cardinality(Range(elems.svg.children))
    /\ \A c \in 1..Len(circles) :
           /\ OnSurface(Store, c) <=> AddIn(changes, c)
           /\ AddIn(changesUndone, c) => ~OnSurface(Store, c)
    /\ last = "onSvgClick" =>
           /\ Len(circles) = Len(pre.circles) + 1
           /\ ~OnSurface(pre, Len(circles))
    /\ (last = "onUndoClick" /\ pre.changes /= <<>> /\ IsAdd(Last(pre.changes)))
           => OnSurface(pre, Last(pre.changes).circle)
    /\ (last = "onRedoClick" /\ pre.changesUndone /= <<>>
            /\ IsAdd(Last(pre.changesUndone)))
           => ~OnSurface(pre, Last(pre.changesUndone).circle)

\* two circles were placed and removed by undo; a redo has put the first
\* back, the second is still off the surface with its record in the redo
\* stack
NoDoubleAddOrRemoveWitness ==
    /\ last = "onRedoClick"
    /\ Len(circles) >= 2
    /\ AddIn(changes, 1)
    /\ OnSurface(Store, 1)
    /\ ~OnSurface(pre, 1)
    /\ AddIn(changesUndone, 2)
    /\ ~OnSurface(Store, 2)

\* C19: no dangling diameter change.  A diameterChange record in the undo
\* stack has the circleAdded record of its circle below it; one in the redo
\* stack has that record in the undo stack or above it in the redo stack
\* (redone before it); so undo and redo change the radius only of a circle
\* that is on the surface.
LogWellFormed ==
    /\ \A i \in 1..Len(changes) :
           IsDiameter(changes[i]) =>
               AddIn(SubSeq(changes, 1, i - 1), changes[i].circle)
    /\ \A i \in 1..Len(changesUndone) :
           IsDiameter(changesUndone[i]) =>
               \/ AddIn(changes, changesUndone[i].circle)
               \/ AddIn(SubSeq(changesUndone, i + 1, Len(changesUndone)),
                        changesUndone[i].circle)
    /\ (last = "onUndoClick" /\ pre.changes /= <<>>
            /\ IsDiameter(Last(pre.changes)))
           => /\ OnSurface(pre, Last(pre.changes).circle)
              /\ OnSurface(Store, Last(pre.changes).circle)
    /\ (last = "onRedoClick" /\ pre.changesUndone /= <<>>
            /\ IsDiameter(Last(pre.changesUndone)))
           => /\ OnSurface(pre, Last(pre.changesUndone).circle)
              /\ OnSurface(Store, Last(pre.changesUndone).circle)

\* a circle and its diameter change are both undone, the circle last, while
\* another circle stays on the surface
LogWellFormedWitness ==
    /\ last = "onUndoClick"
    /\ Len(changesUndone) = 2
    /\ IsDiameter(changesUndone[1])
    /\ IsAdd(changesUndone[2])
    /\ changesUndone[1].circle = changesUndone[2].circle
    /\ changes /= <<>>
    /\ ~OnSurface(Store, changesUndone[1].circle)

\* the diameter a circle is created with: r is set to DEFAULT_DIAMETER
CreationDiameter == 2 * DEFAULT_DIAMETER

\* the places of the diameterChange records of circle c in the undo stack
DiameterChanges(c) ==
    {i \in 1..Len(changes) : IsDiameter(changes[i]) /\ changes[i].circle = c}

\* the diameter the undo stack gives circle c below place i
LoggedDiameter(c, i) ==
    LET below == {j \in DiameterChanges(c) : j < i}
    IN IF below = {} THEN CreationDiameter
       ELSE changes[CHOOSE j \in below : \A k \in below : k <= j].newDiameter

\* C20: the drawing is a function of the undo stack.  In a default state
\* the circles on the surface are those of the circleAdded records of the
\* undo stack; each has the newDiameter of the topmost diameterChange record
\* of the undo stack for it, or the diameter of its creation when there is
\* none; and the diameterChange records of one circle chain: each
\* oldDiameter is the newDiameter of the one before, or the creation
\* diameter.
DrawingFollowsUndoStack ==
    Default(Store)
        => /\ Range(elems.svg.children) =
                  {changes[i].circle : i \in {j \in 1..Len(changes) : IsAdd(changes[j])}}
           /\ \A c \in Range(elems.svg.children) :
                  /\ Diameter(circles[c].r) = LoggedDiameter(c, Len(changes) + 1)
                  /\ \A i \in DiameterChanges(c) :
                         changes[i].oldDiameter = LoggedDiameter(c, i)

\* one circle has two diameter changes in the undo stack, the second
\* starting from the diameter the first set
DrawingFollowsUndoStackWitness ==
    /\ Default(Store)
    /\ last = "onFormCloseClick"
    /\ Len(changes) = 3
    /\ DiameterChanges(changes[1].circle) = {2, 3}
    /\ changes[3].oldDiameter = changes[2].newDiameter
    /\ changes[3].oldDiameter /= CreationDiameter
    /\ Diameter(circles[changes[1].circle].r) = changes[3].newDiameter

=============================================================================
